---- MODULE Spec2Model ----
(***************************************************************************)
(* A model of tui-term's PseudoTerminal widget (src/src/widget.rs): the     *)
(* configuration builder and <PseudoTerminal as Widget>::render, which      *)
(* clears the Area, paints the optional Block, and hands the inner Area to  *)
(* state::handle for the per-cell mapping and the cursor overlay.           *)
(*                                                                         *)
(* The destination surface is a ratatui Buffer of BufW x BufH cells.  Each  *)
(* cell carries the four fields of ratatui::buffer::Cell the widget touches *)
(* (symbol, fg, bg, modifier) and two history fields: `by`, the step that   *)
(* wrote the cell last, and `at`, the number of the render call that did.   *)
(***************************************************************************)
EXTENDS Integers, Sequences, FiniteSets, TLC

VARIABLES screen, term, buf, last, calls, panicked, pc

\* The configuration builder on its own: the widget being configured, the
\* Cursor being configured, and the values the constructor and the setters
\* were called with.
VARIABLES built, cur, given

\* The nested_shell_async example: the RwLock around the parser and the
\* parser's state (a version, one higher after each process or set_size), the
\* two halves of the frame being drawn, the position of the reader task, of
\* the UI loop and of the writer task, the key presses read so far, the
\* message the UI loop is sending, the channel, the message the writer task
\* has received, and the bytes written to the PTY.
VARIABLES parserLock, parser, frame, rtPc, uiPc, wtPc,
          pressed, pending, chan, bytes, written

widgetVars == <<screen, term, buf, last, calls, panicked, pc>>
builderVars == <<built, cur, given>>
exampleVars == <<parserLock, parser, frame, rtPc, uiPc, wtPc,
                 pressed, pending, chan, bytes, written>>

vars == <<screen, term, buf, last, calls, panicked, pc, built, cur, given,
          parserLock, parser, frame, rtPc, uiPc, wtPc,
          pressed, pending, chan, bytes, written>>

(***************************************************************************)
(* Bounds of the model.                                                     *)
(***************************************************************************)
\* The destination surface is BufW columns by BufH rows.
BufW == 3
BufH == 3
\* An Area's origin is drawn from 0..MaxOrigin, its sides from 0..MaxSide.
MaxOrigin == 1
MaxSide == 3
\* A Screen has 0..MaxScreen rows and columns.
MaxScreen == 2
\* The Screen's cursor position is drawn from (0..MaxCursor) x (0..MaxCursor).
MaxCursor == 1

Min(a, b) == IF a < b THEN a ELSE b
Max(a, b) == IF a > b THEN a ELSE b

\* Option<T>: None is the empty set, Some(v) the singleton.
None == {}
Some(v) == {v}
Unwrap(o) == CHOOSE v \in o : TRUE

(***************************************************************************)
(* ratatui::style::Style and ratatui::buffer::Cell, as far as the widget    *)
(* uses them.                                                               *)
(***************************************************************************)
\* Style::default(): nothing set.
StyleDefault == [fg |-> "None", bg |-> "None", add |-> {}, sub |-> {}]

StyleFg(s, c) == [s EXCEPT !.fg = c]
StyleBg(s, c) == [s EXCEPT !.bg = c]
StyleAddModifier(s, m) == [s EXCEPT !.add = @ \cup {m}, !.sub = @ \ {m}]

\* A cleared cell (Cell::reset).
CellReset(call) ==
    [symbol |-> " ", fg |-> "Reset", bg |-> "Reset", modifier |-> {},
     by |-> "clear", at |-> call]

\* The visible part of a destination cell.
Vis(cell) ==
    [symbol |-> cell.symbol, fg |-> cell.fg, bg |-> cell.bg,
     modifier |-> cell.modifier]

\* Cell::set_style: the style is patched onto the cell.
PatchStyle(v, style) ==
    [v EXCEPT !.fg = IF style.fg = "None" THEN @ ELSE style.fg,
              !.bg = IF style.bg = "None" THEN @ ELSE style.bg,
              !.modifier = (@ \cup style.add) \ style.sub]

(***************************************************************************)
(* ratatui::layout::Rect.                                                   *)
(***************************************************************************)
Rect(x, y, w, h) == [x |-> x, y |-> y, width |-> w, height |-> h]
Right(r) == r.x + r.width
Bottom(r) == r.y + r.height
BufArea == Rect(0, 0, BufW, BufH)

Intersection(a, b) ==
    LET x1 == Max(a.x, b.x)
        y1 == Max(a.y, b.y)
        x2 == Min(Right(a), Right(b))
        y2 == Min(Bottom(a), Bottom(b))
    IN  Rect(x1, y1, Max(0, x2 - x1), Max(0, y2 - y1))

\* The cells <<x, y>> of a Rect.
Positions(r) ==
    {<<x, y>> : x \in r.x .. (r.x + r.width - 1),
                y \in r.y .. (r.y + r.height - 1)}

BufPositions == Positions(BufArea)

\* Rect::contains.
Contains(r, p) ==
    p[1] >= r.x /\ p[1] < Right(r) /\ p[2] >= r.y /\ p[2] < Bottom(r)

(***************************************************************************)
(* The Screen and Cell traits (widget.rs 14-34).  A Screen of the model has *)
(* `rows` x `cols` cells; `pattern` says which of them have contents.  The  *)
(* glyph and the style of a cell depend on its position, so that a shifted  *)
(* or transposed mapping shows.                                             *)
(***************************************************************************)
Glyphs == <<"a", "b", "c", "d", "e", "f", "g", "h", "i", "j", "k", "l",
            "m", "n", "o", "p", "q", "r", "s", "t", "u", "v", "w", "x">>

GlyphAt(r, c) == Glyphs[r * (MaxScreen + 2) + c + 1]

Patterns == {"blank", "checker"}

HasContentsAt(pattern, r, c) ==
    CASE pattern = "blank" -> FALSE
      [] OTHER -> (r + c) % 2 = 0

Screens ==
    [rows : 0 .. MaxScreen, cols : 0 .. MaxScreen, pattern : Patterns,
     cursor : (0 .. MaxCursor) \X (0 .. MaxCursor), hide : BOOLEAN]

\* Screen::cell(row, col): the cell at the given location if it exists.
ScreenCell(s, row, col) ==
    IF row < s.rows /\ col < s.cols
    THEN Some([contents |-> HasContentsAt(s.pattern, row, col),
               symbol |-> IF HasContentsAt(s.pattern, row, col)
                          THEN GlyphAt(row, col) ELSE "",
               fg |-> IF col = 0 THEN "LightRed" ELSE "Reset",
               bg |-> IF row = 1 THEN "Blue" ELSE "Reset",
               modifier |-> IF row = 0 THEN {"ITALIC"} ELSE {}])
    ELSE None

\* Screen::hide_cursor and Screen::cursor_position (row, column).
ScreenHideCursor(s) == s.hide
ScreenCursorPosition(s) == s.cursor

\* Cell::has_contents.
CellHasContents(cell) == cell.contents

\* Cell::apply: the cell's glyph and style replace the destination cell's.
CellApply(cell, dest, call) ==
    [symbol |-> cell.symbol, fg |-> cell.fg, bg |-> cell.bg,
     modifier |-> cell.modifier, by |-> "content", at |-> call]

(***************************************************************************)
(* Cursor (widget.rs 75-180).                                               *)
(***************************************************************************)
\* A default Cursor whose style lacks the Gray foreground.
CursorDefaultNoFg ==
    [show |-> TRUE,
     symbol |-> "U+2588",
     style |-> StyleDefault,
     overlay_style |-> StyleAddModifier(StyleDefault, "REVERSED")]

CursorDefault ==
    [show |-> TRUE,
     symbol |-> "U+2588",
     style |-> StyleFg(StyleDefault, "Gray"),
     overlay_style |-> StyleAddModifier(StyleDefault, "REVERSED")]

CursorSymbol(self, symbol) == [self EXCEPT !.symbol = symbol]
CursorStyle(self, style) == [self EXCEPT !.style = style]
CursorOverlayStyleIntoStyle(self, style) == [self EXCEPT !.style = style]
CursorOverlayStyle(self, style) == [self EXCEPT !.overlay_style = style]
CursorVisibility(self, show) == [self EXCEPT !.show = show]
CursorShow(self) == [self EXCEPT !.show = TRUE]
CursorHide(self) == [self EXCEPT !.show = FALSE]

(***************************************************************************)
(* PseudoTerminal (widget.rs 67-73, 182-287).  The screen reference is the  *)
(* variable `screen`; the widget holds the three configurable fields.       *)
(***************************************************************************)
PseudoTerminalNew ==
    [block |-> None, style |-> None, cursor |-> CursorDefault]

PseudoTerminalBlock(self, b) == [self EXCEPT !.block = Some(b)]
PseudoTerminalCursor(self, c) == [self EXCEPT !.cursor = c]
PseudoTerminalStyle(self, s) == [self EXCEPT !.style = Some(s)]

(***************************************************************************)
(* The values the setters are called with.                                  *)
(***************************************************************************)
StyleCyanRed == StyleFg(StyleBg(StyleDefault, "Cyan"), "LightRed")
StyleBold == StyleAddModifier(StyleDefault, "BOLD")
StyleWhiteOnBlackBold ==
    StyleAddModifier(StyleBg(StyleFg(StyleDefault, "White"), "Black"), "BOLD")

AllBorders == {"LEFT", "RIGHT", "TOP", "BOTTOM"}

Blocks ==
    {[borders |-> AllBorders, title |-> <<"l", "s">>, style |-> StyleBold],
     [borders |-> {}, title |-> <<>>, style |-> StyleBold],
     [borders |-> {"LEFT"}, title |-> <<>>, style |-> StyleDefault]}

Cursors ==
    {CursorDefault,
     CursorStyle(CursorSymbol(CursorDefault, "|"), StyleCyanRed),
     CursorVisibility(CursorDefault, FALSE),
     CursorHide(CursorShow(CursorDefault)),
     CursorOverlayStyle(CursorDefault, StyleCyanRed)}

Styles == {StyleWhiteOnBlackBold}

Areas ==
    {Rect(x, y, w, h) : x \in 0 .. MaxOrigin, y \in 0 .. MaxOrigin,
                        w \in 0 .. MaxSide, h \in 0 .. MaxSide}

(***************************************************************************)
(* ratatui's Clear and Block, as render calls them (widget.rs 292-296).     *)
(***************************************************************************)
\* Clear.render(area, buf): every cell of the Area on the surface is reset.
ClearCells(area) == Positions(Intersection(area, BufArea))

\* A Clear that resets the whole surface instead of the Area.
ClearWholeSurface(area, b, call) ==
    [p \in BufPositions |-> CellReset(call)]

Clear(area, b, call) ==
    [p \in BufPositions |->
        IF Contains(Intersection(area, BufArea), p)
        THEN CellReset(call)
        ELSE b[p]]

\* An inner Area computed with plain subtraction, which takes a u16 below 0
\* when the margins exceed the Area.
BlockInnerUnclamped(b, area) ==
    LET left == IF "LEFT" \in b.borders THEN 1 ELSE 0
        right == IF "RIGHT" \in b.borders THEN 1 ELSE 0
        top == IF "TOP" \in b.borders \/ Len(b.title) > 0 THEN 1 ELSE 0
        bottom == IF "BOTTOM" \in b.borders THEN 1 ELSE 0
    IN  Rect(area.x + left, area.y + top,
             area.width - left - right, area.height - top - bottom)

\* Block::inner(area): the Area minus the borders and the title row, each
\* subtraction saturating at 0 and each origin step staying inside the Area.
BlockInner(b, area) ==
    LET left == IF "LEFT" \in b.borders THEN 1 ELSE 0
        right == IF "RIGHT" \in b.borders THEN 1 ELSE 0
        top == IF "TOP" \in b.borders \/ Len(b.title) > 0 THEN 1 ELSE 0
        bottom == IF "BOTTOM" \in b.borders THEN 1 ELSE 0
    IN  Rect(Min(area.x + left, Right(area)),
             Min(area.y + top, Bottom(area)),
             Max(0, Max(0, area.width - left) - right),
             Max(0, Max(0, area.height - top) - bottom))

\* The cells of the (clamped) Area on which the Block draws a border or a
\* title glyph, with the glyph: sides first, then corners, then the title.
BlockGlyph(b, a, x, y) ==
    LET onLeft == "LEFT" \in b.borders /\ x = a.x
        onRight == "RIGHT" \in b.borders /\ x = Right(a) - 1
        onTop == "TOP" \in b.borders /\ y = a.y
        onBottom == "BOTTOM" \in b.borders /\ y = Bottom(a) - 1
        titleX == a.x + (IF "LEFT" \in b.borders THEN 1 ELSE 0)
        titleW == Max(0, Max(0, a.width
                              - (IF "LEFT" \in b.borders THEN 1 ELSE 0))
                         - (IF "RIGHT" \in b.borders THEN 1 ELSE 0))
        i == x - titleX
    IN  IF y = a.y /\ i >= 0 /\ i < Min(Len(b.title), titleW)
        THEN b.title[i + 1]
        ELSE IF onTop /\ onLeft THEN "TOP_LEFT"
        ELSE IF onBottom /\ onLeft THEN "BOTTOM_LEFT"
        ELSE IF onTop /\ onRight THEN "TOP_RIGHT"
        ELSE IF onBottom /\ onRight THEN "BOTTOM_RIGHT"
        ELSE IF onBottom THEN "HORIZONTAL"
        ELSE IF onRight THEN "VERTICAL"
        ELSE IF onTop THEN "HORIZONTAL"
        ELSE IF onLeft THEN "VERTICAL"
        ELSE ""

BlockCells(area) == Positions(Intersection(area, BufArea))

\* Block::render(area, buf): the block's style is patched onto every cell of
\* the Area on the surface, then the borders and the title are drawn.
BlockRender(b, area, bf, call) ==
    LET a == Intersection(area, BufArea)
    IN  [p \in BufPositions |->
            IF Contains(a, p)
            THEN LET styled == PatchStyle(bf[p], b.style)
                     g == BlockGlyph(b, a, p[1], p[2])
                 IN  IF g = ""
                     THEN [styled EXCEPT !.by = "fill", !.at = call]
                     ELSE [styled EXCEPT !.symbol = g, !.by = "block",
                                         !.at = call]
            ELSE bf[p]]

(***************************************************************************)
(* state::handle(term, area, buf): the per-cell mapping and the cursor      *)
(* overlay.  `area` is the inner Area; destination iteration is bounded by  *)
(* the surface.                                                             *)
(***************************************************************************)
HandleCells(area) == Positions(Intersection(area, BufArea))

\* Step 4: destination cell (area.x + c, area.y + r) takes Screen cell (r, c).
HandleContent(s, area, bf, call) ==
    [p \in BufPositions |->
        IF Contains(Intersection(area, BufArea), p)
        THEN LET sc == ScreenCell(s, p[2] - area.y, p[1] - area.x)
             IN  IF sc # None /\ CellHasContents(Unwrap(sc))
                 THEN CellApply(Unwrap(sc), bf[p], call)
                 ELSE bf[p]
        ELSE bf[p]]

\* Whether step 5 draws the cursor, and where.
CursorCell(area, s) ==
    <<area.x + ScreenCursorPosition(s)[2], area.y + ScreenCursorPosition(s)[1]>>

\* A cursor test that forgets the Cursor's show flag.
CursorDrawnIgnoringShow(t, s, area) ==
    /\ ~ScreenHideCursor(s)
    /\ ScreenCursorPosition(s)[1] < area.height
    /\ ScreenCursorPosition(s)[2] < area.width
    /\ Contains(Intersection(area, BufArea), CursorCell(area, s))
    /\ ScreenCell(s, ScreenCursorPosition(s)[1], ScreenCursorPosition(s)[2])
          # None

CursorDrawn(t, s, area) ==
    /\ ~ScreenHideCursor(s)
    /\ t.cursor.show
    /\ ScreenCursorPosition(s)[1] < area.height
    /\ ScreenCursorPosition(s)[2] < area.width
    /\ Contains(Intersection(area, BufArea), CursorCell(area, s))
    /\ ScreenCell(s, ScreenCursorPosition(s)[1], ScreenCursorPosition(s)[2])
          # None

\* Step 5: the overlay style on a cell with contents, else symbol and style.
HandleCursor(t, s, area, bf, call) ==
    IF CursorDrawn(t, s, area)
    THEN LET p == CursorCell(area, s)
             sc == Unwrap(ScreenCell(s, ScreenCursorPosition(s)[1],
                                     ScreenCursorPosition(s)[2]))
         IN  [bf EXCEPT ![p] =
                IF CellHasContents(sc)
                THEN [PatchStyle(@, t.cursor.overlay_style)
                        EXCEPT !.by = "cursor", !.at = call]
                ELSE [PatchStyle(@, t.cursor.style)
                        EXCEPT !.symbol = t.cursor.symbol,
                               !.by = "cursor", !.at = call]]
    ELSE bf

\* A handle that overlays the cursor before the content is written.
HandleCursorFirst(t, s, area, bf, call) ==
    HandleContent(s, area, HandleCursor(t, s, area, bf, call), call)

Handle(t, s, area, bf, call) ==
    HandleCursor(t, s, area, HandleContent(s, area, bf, call), call)

(***************************************************************************)
(* <PseudoTerminal as Widget>::render (widget.rs 289-300).                  *)
(***************************************************************************)
\* A render that keeps the outer Area although a block is set.
InnerAreaOuter(t, area) == area

\* The Area handed to state::handle: block.inner(area), or the Area itself.
InnerArea(t, area) ==
    IF t.block = None THEN area ELSE BlockInner(Unwrap(t.block), area)

\* A render without the Clear of line 292.
WidgetRenderNoClear(t, s, area, bf, call) ==
    LET painted == IF t.block = None
                   THEN bf
                   ELSE BlockRender(Unwrap(t.block), area, bf, call)
    IN  Handle(t, s, InnerArea(t, area), painted, call)

\* A render that hands the outer Area to state::handle.
WidgetRenderOuter(t, s, area, bf, call) ==
    LET cleared == Clear(area, bf, call)
        painted == IF t.block = None
                   THEN cleared
                   ELSE BlockRender(Unwrap(t.block), area, cleared, call)
    IN  Handle(t, s, area, painted, call)

\* A render that paints the block after state::handle has run.
WidgetRenderBlockLast(t, s, area, bf, call) ==
    LET cleared == Clear(area, bf, call)
        handled == Handle(t, s, InnerArea(t, area), cleared, call)
    IN  IF t.block = None
        THEN handled
        ELSE BlockRender(Unwrap(t.block), area, handled, call)

WidgetRender(t, s, area, bf, call) ==
    LET cleared == Clear(area, bf, call)
        painted == IF t.block = None
                   THEN cleared
                   ELSE BlockRender(Unwrap(t.block), area, cleared, call)
    IN  Handle(t, s, InnerArea(t, area), painted, call)

\* What makes render panic: a u16 that underflows in the inner Area, or a
\* destination access outside the surface.
RenderPanics(t, area) ==
    LET inner == InnerArea(t, area)
    IN  \/ inner.width < 0
        \/ inner.height < 0
        \/ ~(ClearCells(area) \subseteq BufPositions)
        \/ (t.block # None /\ ~(BlockCells(area) \subseteq BufPositions))
        \/ ~(HandleCells(inner) \subseteq BufPositions)

(***************************************************************************)
(* The configuration builder (widget.rs 83-180, 198-287), exercised setter  *)
(* by setter.  Here the widget carries its screen reference, as the struct  *)
(* of widget.rs 68-73 does; a reference is one of ScreenRefs.               *)
(***************************************************************************)
ScreenRefs == {"parser_a.screen", "parser_b.screen"}

\* PseudoTerminal::new(screen).
PseudoTerminalNewFor(s) ==
    [screen |-> s,
     block |-> PseudoTerminalNew.block,
     style |-> PseudoTerminalNew.style,
     cursor |-> PseudoTerminalNew.cursor]

\* PseudoTerminal::screen.
PseudoTerminalScreen(self) == self.screen

\* The arguments the setters are called with.
SymbolArgs == {"|", "_"}
StyleArgs == {StyleCyanRed, StyleBold}
BlockArgs == Blocks
WidgetStyleArgs == {StyleWhiteOnBlackBold, StyleBold}

BuilderIdle ==
    /\ built = None
    /\ cur = CursorDefault
    /\ given = [screen |-> "", block |-> None, style |-> None,
                cursor |-> CursorDefault, cur |-> CursorDefault]

BuilderNew ==
    /\ built = None
    /\ \E s \in ScreenRefs :
          /\ built' = Some(PseudoTerminalNewFor(s))
          /\ given' = [given EXCEPT
                         !.screen = s,
                         !.block = None,
                         !.style = None,
                         !.cursor = [show |-> TRUE, symbol |-> "U+2588",
                                     style |-> StyleFg(StyleDefault, "Gray"),
                                     overlay_style |->
                                        StyleAddModifier(StyleDefault,
                                                         "REVERSED")]]
    /\ UNCHANGED <<cur, widgetVars, exampleVars>>

BuilderBlock ==
    /\ built # None
    /\ \E b \in BlockArgs :
          /\ built' = Some(PseudoTerminalBlock(Unwrap(built), b))
          /\ given' = [given EXCEPT !.block = Some(b)]
    /\ UNCHANGED <<cur, widgetVars, exampleVars>>

BuilderStyle ==
    /\ built # None
    /\ \E st \in WidgetStyleArgs :
          /\ built' = Some(PseudoTerminalStyle(Unwrap(built), st))
          /\ given' = [given EXCEPT !.style = Some(st)]
    /\ UNCHANGED <<cur, widgetVars, exampleVars>>

\* PseudoTerminal::cursor(cursor), with the Cursor configured so far.
BuilderCursor ==
    /\ built # None
    /\ built' = Some(PseudoTerminalCursor(Unwrap(built), cur))
    /\ given' = [given EXCEPT !.cursor = given.cur]
    /\ UNCHANGED <<cur, widgetVars, exampleVars>>

BuilderCursorSymbol ==
    /\ \E sym \in SymbolArgs :
          /\ cur' = CursorSymbol(cur, sym)
          /\ given' = [given EXCEPT !.cur.symbol = sym]
    /\ UNCHANGED <<built, widgetVars, exampleVars>>

BuilderCursorStyle ==
    /\ \E st \in StyleArgs :
          /\ cur' = CursorStyle(cur, st)
          /\ given' = [given EXCEPT !.cur.style = st]
    /\ UNCHANGED <<built, widgetVars, exampleVars>>

BuilderCursorOverlayStyle ==
    /\ \E st \in StyleArgs :
          /\ cur' = CursorOverlayStyle(cur, st)
          /\ given' = [given EXCEPT !.cur.overlay_style = st]
    /\ UNCHANGED <<built, widgetVars, exampleVars>>

BuilderCursorVisibility ==
    /\ \E show \in BOOLEAN :
          /\ cur' = CursorVisibility(cur, show)
          /\ given' = [given EXCEPT !.cur.show = show]
    /\ UNCHANGED <<built, widgetVars, exampleVars>>

BuilderCursorShow ==
    /\ cur' = CursorShow(cur)
    /\ given' = [given EXCEPT !.cur.show = TRUE]
    /\ UNCHANGED <<built, widgetVars, exampleVars>>

BuilderCursorHide ==
    /\ cur' = CursorHide(cur)
    /\ given' = [given EXCEPT !.cur.show = FALSE]
    /\ UNCHANGED <<built, widgetVars, exampleVars>>

\* The example as main leaves it before the tasks and the UI loop take a step.
ExampleStart ==
    /\ parserLock = [readers |-> 0, writer |-> "none"]
    /\ parser = 0
    /\ frame = [top |-> 0, bottom |-> 0]
    /\ rtPc = "read"
    /\ uiPc = "draw"
    /\ wtPc = "recv"
    /\ pressed = <<>>
    /\ pending = <<>>
    /\ chan = <<>>
    /\ bytes = <<>>
    /\ written = <<>>

(***************************************************************************)
(* The state machine: the host takes a Screen snapshot, may draw a frame    *)
(* with the default widget on the whole surface (as the tests' helper       *)
(* snapshot_typescript does), builds one widget with the chained setters    *)
(* and renders it into an Area of the same surface.                         *)
(***************************************************************************)
CallRecord(t, area) ==
    [term |-> t, area |-> area, inner |-> InnerArea(t, area),
     prev |-> IF last = None THEN None ELSE Some(Unwrap(last).area)]

Init ==
    /\ screen \in Screens
    /\ term = None
    /\ buf = [p \in BufPositions |-> CellReset(0)]
    /\ last = None
    /\ calls = 0
    /\ panicked = FALSE
    /\ pc = "idle"
    /\ BuilderIdle
    /\ ExampleStart

DoRender(t, area) ==
    /\ buf' = WidgetRender(t, screen, area, buf, calls + 1)
    /\ panicked' = (panicked \/ RenderPanics(t, area))
    /\ last' = Some(CallRecord(t, area))
    /\ calls' = calls + 1
    /\ term' = None
    /\ UNCHANGED screen

\* tests::snapshot_typescript: PseudoTerminal::new(screen) on the whole surface.
DrawDefault ==
    /\ pc = "idle"
    /\ calls = 0
    /\ DoRender(PseudoTerminalNew, BufArea)
    /\ UNCHANGED <<pc, builderVars, exampleVars>>

New ==
    /\ pc = "idle"
    /\ calls > 0
    /\ term' = Some(PseudoTerminalNew)
    /\ pc' = "building"
    /\ UNCHANGED <<screen, buf, last, calls, panicked, builderVars, exampleVars>>

SetBlock ==
    /\ pc = "building"
    /\ \E b \in Blocks : term' = Some(PseudoTerminalBlock(Unwrap(term), b))
    /\ UNCHANGED <<screen, buf, last, calls, panicked, pc, builderVars,
                   exampleVars>>

SetCursor ==
    /\ pc = "building"
    /\ \E c \in Cursors : term' = Some(PseudoTerminalCursor(Unwrap(term), c))
    /\ UNCHANGED <<screen, buf, last, calls, panicked, pc, builderVars,
                   exampleVars>>

SetStyle ==
    /\ pc = "building"
    /\ \E st \in Styles : term' = Some(PseudoTerminalStyle(Unwrap(term), st))
    /\ UNCHANGED <<screen, buf, last, calls, panicked, pc, builderVars,
                   exampleVars>>

Render ==
    /\ pc = "building"
    /\ \E area \in Areas : DoRender(Unwrap(term), area)
    /\ pc' = "done"
    /\ UNCHANGED <<builderVars, exampleVars>>

Next ==
    \/ DrawDefault
    \/ New
    \/ SetBlock
    \/ SetCursor
    \/ SetStyle
    \/ Render

Spec == Init /\ [][Next]_vars

(***************************************************************************)
(* The builder's specification: the rendering side is parked.               *)
(***************************************************************************)
WidgetParked ==
    /\ screen = [rows |-> 0, cols |-> 0, pattern |-> "blank",
                 cursor |-> <<0, 0>>, hide |-> FALSE]
    /\ term = None
    /\ buf = [p \in BufPositions |-> CellReset(0)]
    /\ last = None
    /\ calls = 0
    /\ panicked = FALSE
    /\ pc = "parked"

InitBuilder ==
    /\ WidgetParked
    /\ BuilderIdle
    /\ ExampleStart

NextBuilder ==
    \/ BuilderNew
    \/ BuilderBlock
    \/ BuilderStyle
    \/ BuilderCursor
    \/ BuilderCursorSymbol
    \/ BuilderCursorStyle
    \/ BuilderCursorOverlayStyle
    \/ BuilderCursorVisibility
    \/ BuilderCursorShow
    \/ BuilderCursorHide

SpecBuilder == InitBuilder /\ [][NextBuilder]_vars

(***************************************************************************)
(* The nested_shell_async example (examples/nested_shell_async.rs): the     *)
(* reader task feeds the PTY's output to the parser, the UI loop draws the  *)
(* parser's screen and forwards key presses over a bounded channel, and the *)
(* writer task writes what it receives to the PTY.                          *)
(***************************************************************************)

\* How many times the parser is mutated, and how many key presses are read.
MaxVersion == 2
MaxKeys == 3

\* The capacity of the channel (32 in main), scaled down with MaxKeys so
\* that the channel fills.
ChannelCapacity == 2

\* The key codes of the match in run.
CharKeys == {"Char(a)", "Char(U+00E9)"}
QuitKeys == {"Char(\\)", "Char(q)"}
KeyCodes ==
    QuitKeys \cup CharKeys \cup
    {"Backspace", "Enter", "Left", "Right", "Up", "Down", "Home", "End",
     "PageUp", "PageDown", "Tab", "BackTab", "Delete", "Insert", "F(1)",
     "Null", "Esc", "CapsLock", "ScrollLock", "NumLock", "PrintScreen",
     "Pause", "Menu", "KeypadBegin", "Media", "Modifier"}

\* input.to_string().into_bytes(): the UTF-8 encoding of the character.
CharBytes(k) ==
    CASE k = "Char(a)" -> <<97>>
      [] k = "Char(U+00E9)" -> <<195, 169>>

\* The arm of the match for one key code: return, send these bytes, or
\* nothing.
KeyArm(k) ==
    CASE k = "Char(\\)" -> [do |-> "return", bytes |-> <<>>]
      [] k = "Char(q)" -> [do |-> "return", bytes |-> <<>>]
      [] k \in CharKeys -> [do |-> "send", bytes |-> CharBytes(k)]
      [] k = "Backspace" -> [do |-> "send", bytes |-> <<8>>]
      [] k = "Enter" -> [do |-> "send", bytes |-> <<10>>]
      [] k = "Left" -> [do |-> "send", bytes |-> <<27, 91, 68>>]
      [] k = "Right" -> [do |-> "send", bytes |-> <<27, 91, 67>>]
      [] k = "Up" -> [do |-> "send", bytes |-> <<27, 91, 65>>]
      [] k = "Down" -> [do |-> "send", bytes |-> <<27, 91, 66>>]
      [] k = "PageUp" -> [do |-> "send", bytes |-> <<27, 91, 53, 126>>]
      [] k = "PageDown" -> [do |-> "send", bytes |-> <<27, 91, 54, 126>>]
      [] k = "Tab" -> [do |-> "send", bytes |-> <<9>>]
      [] OTHER -> [do |-> "nothing", bytes |-> <<>>]

\* The key presses the user makes.
KeysPressed ==
    {"Char(a)", "Char(U+00E9)", "Left", "PageUp", "Home", "Esc", "Char(q)",
     "Char(\\)"}

\* RwLock: read() is granted while no writer holds the lock, write() while
\* nobody holds it.
CanRead(l) == l.writer = "none"
CanWrite(l) == l.writer = "none" /\ l.readers = 0

(* The reader task (lines 77-99). *)

\* reader.read returned size > 0.
RtRead ==
    /\ rtPc = "read"
    /\ parser < MaxVersion
    /\ rtPc' = "lock"
    /\ UNCHANGED <<widgetVars, builderVars,
                   parserLock, parser, frame, uiPc, wtPc,
                   pressed, pending, chan, bytes, written>>

\* reader.read returned 0: break.
RtEof ==
    /\ rtPc = "read"
    /\ rtPc' = "exit"
    /\ UNCHANGED <<widgetVars, builderVars,
                   parserLock, parser, frame, uiPc, wtPc,
                   pressed, pending, chan, bytes, written>>

\* A reader task that goes on to process without taking the write lock.
RtProcessWithoutLock ==
    /\ rtPc = "lock"
    /\ rtPc' = "process"
    /\ UNCHANGED <<widgetVars, builderVars,
                   parserLock, parser, frame, uiPc, wtPc,
                   pressed, pending, chan, bytes, written>>

\* parser.write().unwrap()
RtLockWrite ==
    /\ rtPc = "lock"
    /\ CanWrite(parserLock)
    /\ parserLock' = [parserLock EXCEPT !.writer = "reader"]
    /\ rtPc' = "process"
    /\ UNCHANGED <<widgetVars, builderVars,
                   parser, frame, uiPc, wtPc,
                   pressed, pending, chan, bytes, written>>

\* parser.process(&processed_buf)
RtProcess ==
    /\ rtPc = "process"
    /\ parser' = parser + 1
    /\ rtPc' = "unlock"
    /\ UNCHANGED <<widgetVars, builderVars,
                   parserLock, frame, uiPc, wtPc,
                   pressed, pending, chan, bytes, written>>

\* processed_buf.clear(), and the guard is dropped at the end of the block.
RtUnlock ==
    /\ rtPc = "unlock"
    /\ parserLock' = [parserLock EXCEPT !.writer = "none"]
    /\ rtPc' = "read"
    /\ UNCHANGED <<widgetVars, builderVars,
                   parser, frame, uiPc, wtPc,
                   pressed, pending, chan, bytes, written>>

(* The UI loop, run (lines 124-201). *)

\* terminal.draw calls the closure, which takes parser.read().unwrap().
UiLockRead ==
    /\ uiPc = "draw"
    /\ CanRead(parserLock)
    /\ parserLock' = [parserLock EXCEPT !.readers = @ + 1]
    /\ uiPc' = "ui"
    /\ UNCHANGED <<widgetVars, builderVars,
                   parser, frame, rtPc, wtPc,
                   pressed, pending, chan, bytes, written>>

\* ui renders the widget from the screen: the first rows ...
UiRenderTop ==
    /\ uiPc = "ui"
    /\ frame' = [frame EXCEPT !.top = parser]
    /\ uiPc' = "ui_rest"
    /\ UNCHANGED <<widgetVars, builderVars,
                   parserLock, parser, rtPc, wtPc,
                   pressed, pending, chan, bytes, written>>

\* ... and the last rows; the closure returns and the read guard is dropped.
UiRenderBottom ==
    /\ uiPc = "ui_rest"
    /\ frame' = [frame EXCEPT !.bottom = parser]
    /\ parserLock' = [parserLock EXCEPT !.readers = @ - 1]
    /\ uiPc' = "poll"
    /\ UNCHANGED <<widgetVars, builderVars,
                   parser, rtPc, wtPc,
                   pressed, pending, chan, bytes, written>>

\* event::poll returned false, or the event is not a key press or a resize.
UiNoEvent ==
    /\ uiPc = "poll"
    /\ uiPc' = "draw"
    /\ UNCHANGED <<widgetVars, builderVars,
                   parserLock, parser, frame, rtPc, wtPc,
                   pressed, pending, chan, bytes, written>>

\* Event::Key with kind Press: the match on key.code.
UiKey ==
    /\ uiPc = "poll"
    /\ Len(pressed) < MaxKeys
    /\ \E k \in KeysPressed :
          /\ pressed' = Append(pressed, k)
          /\ CASE KeyArm(k).do = "return" ->
                    /\ uiPc' = "exit"
                    /\ pending' = pending
               [] KeyArm(k).do = "send" ->
                    /\ uiPc' = "send"
                    /\ pending' = KeyArm(k).bytes
               [] OTHER ->
                    /\ uiPc' = "draw"
                    /\ pending' = pending
    /\ UNCHANGED <<widgetVars, builderVars,
                   parserLock, parser, frame, rtPc, wtPc,
                   chan, bytes, written>>

\* A send that gives the message up when the channel is full.
UiSendOrDrop ==
    /\ uiPc = "send"
    /\ chan' = IF Len(chan) < ChannelCapacity
                  THEN Append(chan, pending) ELSE chan
    /\ pending' = <<>>
    /\ uiPc' = "draw"
    /\ UNCHANGED <<widgetVars, builderVars,
                   parserLock, parser, frame, rtPc, wtPc,
                   pressed, bytes, written>>

\* sender.send(bytes).await: completes once the channel has room.
UiSend ==
    /\ uiPc = "send"
    /\ Len(chan) < ChannelCapacity
    /\ chan' = Append(chan, pending)
    /\ pending' = <<>>
    /\ uiPc' = "draw"
    /\ UNCHANGED <<widgetVars, builderVars,
                   parserLock, parser, frame, rtPc, wtPc,
                   pressed, bytes, written>>

\* Event::Resize(cols, rows)
UiResize ==
    /\ uiPc = "poll"
    /\ parser < MaxVersion
    /\ uiPc' = "resize"
    /\ UNCHANGED <<widgetVars, builderVars,
                   parserLock, parser, frame, rtPc, wtPc,
                   pressed, pending, chan, bytes, written>>

\* parser.write().unwrap()
UiLockWrite ==
    /\ uiPc = "resize"
    /\ CanWrite(parserLock)
    /\ parserLock' = [parserLock EXCEPT !.writer = "ui"]
    /\ uiPc' = "set_size"
    /\ UNCHANGED <<widgetVars, builderVars,
                   parser, frame, rtPc, wtPc,
                   pressed, pending, chan, bytes, written>>

\* .set_size(rows, cols); the guard is dropped at the end of the statement.
UiSetSize ==
    /\ uiPc = "set_size"
    /\ parser' = parser + 1
    /\ parserLock' = [parserLock EXCEPT !.writer = "none"]
    /\ uiPc' = "draw"
    /\ UNCHANGED <<widgetVars, builderVars,
                   frame, rtPc, wtPc,
                   pressed, pending, chan, bytes, written>>

(* The writer task (lines 106-112). *)

\* rx.recv().await returned Some(bytes).
WtRecv ==
    /\ wtPc = "recv"
    /\ chan # <<>>
    /\ bytes' = Head(chan)
    /\ chan' = Tail(chan)
    /\ wtPc' = "write"
    /\ UNCHANGED <<widgetVars, builderVars,
                   parserLock, parser, frame, rtPc, uiPc,
                   pressed, pending, written>>

\* writer.write_all(&bytes) and writer.flush()
WtWrite ==
    /\ wtPc = "write"
    /\ written' = written \o bytes
    /\ bytes' = <<>>
    /\ wtPc' = "recv"
    /\ UNCHANGED <<widgetVars, builderVars,
                   parserLock, parser, frame, rtPc, uiPc,
                   pressed, pending, chan>>

\* rx.recv().await returned None: run has returned and dropped the sender,
\* and the channel is empty.
WtClosed ==
    /\ wtPc = "recv"
    /\ chan = <<>>
    /\ uiPc = "exit"
    /\ wtPc' = "exit"
    /\ UNCHANGED <<widgetVars, builderVars,
                   parserLock, parser, frame, rtPc, uiPc,
                   pressed, pending, chan, bytes, written>>

(* main after run (lines 114-122). *)

\* run has returned; main restores the terminal and returns, and the runtime
\* of #[tokio::main] is dropped: a spawned task that is waiting at an await
\* is dropped there, whether or not it has been woken.
RuntimeShutdown ==
    /\ uiPc = "exit"
    /\ wtPc = "recv"
    /\ wtPc' = "dropped"
    /\ UNCHANGED <<widgetVars, builderVars,
                   parserLock, parser, frame, rtPc, uiPc,
                   pressed, pending, chan, bytes, written>>

InitExample ==
    /\ WidgetParked
    /\ BuilderIdle
    /\ ExampleStart

NextExample ==
    \/ RtRead
    \/ RtEof
    \/ RtLockWrite
    \/ RtProcess
    \/ RtUnlock
    \/ UiLockRead
    \/ UiRenderTop
    \/ UiRenderBottom
    \/ UiNoEvent
    \/ UiKey
    \/ UiSend
    \/ UiResize
    \/ UiLockWrite
    \/ UiSetSize
    \/ WtRecv
    \/ WtWrite
    \/ WtClosed
    \/ RuntimeShutdown

SpecExample == InitExample /\ [][NextExample]_vars


(***************************************************************************)
(* Vocabulary of the properties.                                            *)
(***************************************************************************)
Rendered == last # None
LastCall == Unwrap(last)
LastTerm == LastCall.term
OuterArea == LastCall.area
InnerOfLast == LastCall.inner

ResetVis == [symbol |-> " ", fg |-> "Reset", bg |-> "Reset", modifier |-> {}]

\* The visible value of a Screen cell's glyph and style.
ContentVis(sc) ==
    [symbol |-> sc.symbol, fg |-> sc.fg, bg |-> sc.bg,
     modifier |-> sc.modifier]

\* The cells of a Rect that lie on the surface.
OnSurface(r) == {p \in BufPositions : Contains(r, p)}

\* The Screen cell that maps onto destination cell p of the inner Area.
SourceCell(p) ==
    ScreenCell(screen, p[2] - InnerOfLast.y, p[1] - InnerOfLast.x)

HasSource(p) == SourceCell(p) # None /\ Unwrap(SourceCell(p)).contents

\* The destination cell at the cursor's coordinate.
CursorTarget ==
    <<InnerOfLast.x + screen.cursor[2], InnerOfLast.y + screen.cursor[1]>>

\* The value a cell of the outer Area has once the Area is cleared and the
\* decoration, if any, is painted: the baseline the content is written on.
Baseline(p) ==
    IF LastTerm.block = None
    THEN ResetVis
    ELSE Vis(BlockRender(Unwrap(LastTerm.block), OuterArea,
                         [q \in BufPositions |-> CellReset(0)], 0)[p])

\* The cursor is to be drawn: both visibility flags permit it and its
\* position is a cell of the Screen inside the inner Area, on the surface.
CursorShown ==
    /\ LastTerm.cursor.show
    /\ ~screen.hide
    /\ screen.cursor[1] < InnerOfLast.height
    /\ screen.cursor[2] < InnerOfLast.width
    /\ screen.cursor[1] < screen.rows
    /\ screen.cursor[2] < screen.cols
    /\ CursorTarget \in BufPositions

C2_ContentMapping ==
    Rendered =>
       /\ \A p \in OnSurface(InnerOfLast) \ {CursorTarget} :
             IF HasSource(p)
             THEN Vis(buf[p]) = ContentVis(Unwrap(SourceCell(p)))
             ELSE Vis(buf[p]) = Baseline(p)
       /\ \A p \in BufPositions :
             (buf[p].by = "content" /\ buf[p].at = calls)
                => Contains(InnerOfLast, p)

\* A Screen with more rows than the inner Area, drawn at a shifted origin.
C2_Witness ==
    /\ pc = "done"
    /\ InnerOfLast.x > 0
    /\ InnerOfLast.height = 1
    /\ screen.rows > InnerOfLast.height
    /\ ScreenCell(screen, 1, 1) # None
    /\ Unwrap(ScreenCell(screen, 1, 1)).contents
    /\ CursorTarget # <<InnerOfLast.x, InnerOfLast.y>>
    /\ buf[<<InnerOfLast.x, InnerOfLast.y>>].by = "content"
    /\ buf[<<InnerOfLast.x, InnerOfLast.y>>].symbol = GlyphAt(0, 0)

(***************************************************************************)
(* C3. Cursor precedence: when the cursor is drawn, the cell at its         *)
(* coordinate is written last; over a Screen cell with contents it keeps    *)
(* the content's glyph and carries the overlay style, over a cell without   *)
(* contents it shows the cursor symbol with the cursor's base style.        *)
(***************************************************************************)
C3_CursorPrecedence ==
    (Rendered /\ CursorShown) =>
       /\ buf[CursorTarget].by = "cursor"
       /\ buf[CursorTarget].at = calls
       /\ IF HasSource(CursorTarget)
          THEN Vis(buf[CursorTarget]) =
                  PatchStyle(ContentVis(Unwrap(SourceCell(CursorTarget))),
                             LastTerm.cursor.overlay_style)
          ELSE Vis(buf[CursorTarget]) =
                  [PatchStyle(Baseline(CursorTarget), LastTerm.cursor.style)
                      EXCEPT !.symbol = LastTerm.cursor.symbol]

\* The cursor over a cell with contents, with a non-default overlay style,
\* inside a decorated Area.
C3_Witness ==
    /\ pc = "done"
    /\ CursorShown
    /\ HasSource(CursorTarget)
    /\ LastTerm.cursor.overlay_style = StyleCyanRed
    /\ LastTerm.block # None
    /\ buf[CursorTarget].symbol = GlyphAt(0, 0)
    /\ buf[CursorTarget].bg = "Cyan"

(***************************************************************************)
(* C4. Visibility suppression: when the Cursor's show flag is false or the  *)
(* Screen hides its cursor, no cell is written by the cursor step, and      *)
(* every cell of the inner Area, the one at the cursor's coordinate         *)
(* included, holds ordinary Screen content or its baseline value.           *)
(***************************************************************************)
C4_VisibilitySuppression ==
    (Rendered /\ (~LastTerm.cursor.show \/ screen.hide)) =>
       /\ \A p \in BufPositions :
             ~(buf[p].by = "cursor" /\ buf[p].at = calls)
       /\ \A p \in OnSurface(InnerOfLast) :
             IF HasSource(p)
             THEN Vis(buf[p]) = ContentVis(Unwrap(SourceCell(p)))
             ELSE Vis(buf[p]) = Baseline(p)

\* show = false is all that keeps the cursor from being drawn.
C4_Witness ==
    /\ pc = "done"
    /\ ~LastTerm.cursor.show
    /\ ~screen.hide
    /\ screen.cursor[1] < Min(InnerOfLast.height, screen.rows)
    /\ screen.cursor[2] < Min(InnerOfLast.width, screen.cols)
    /\ CursorTarget \in BufPositions
    /\ ~HasSource(CursorTarget)
    /\ buf[CursorTarget].symbol = " "

(***************************************************************************)
(* C5. Decoration inset exactness: with a block set, content and cursor are *)
(* written only inside block.inner(outer Area), content glyphs are offset   *)
(* from the inner Area's origin, and every cell of the outer Area outside   *)
(* the inner Area keeps what the decoration painted there.                  *)
(***************************************************************************)
C5_DecorationInset ==
    (Rendered /\ LastTerm.block # None) =>
       LET inner == BlockInner(Unwrap(LastTerm.block), OuterArea)
       IN  /\ \A p \in BufPositions :
                 (buf[p].by \in {"content", "cursor"} /\ buf[p].at = calls)
                    => Contains(inner, p)
           /\ \A p \in BufPositions :
                 (buf[p].by = "content" /\ buf[p].at = calls)
                    => buf[p].symbol = GlyphAt(p[2] - inner.y, p[1] - inner.x)
           /\ \A p \in OnSurface(OuterArea) \ OnSurface(inner) :
                 Vis(buf[p]) = Baseline(p)

\* A bordered, titled Area of 3 x 3 whose single inner cell took content.
C5_Witness ==
    /\ pc = "done"
    /\ LastTerm.block # None
    /\ Unwrap(LastTerm.block).borders = AllBorders
    /\ OuterArea = Rect(0, 0, 3, 3)
    /\ buf[<<1, 1>>].by = "content"
    /\ buf[<<0, 0>>].symbol = "TOP_LEFT"
    /\ buf[<<1, 0>>].symbol = "l"

(***************************************************************************)
(* C6.  Two successive render calls on one surface, the second Area a       *)
(* strict sub-rectangle of the first.                                       *)
(***************************************************************************)
StrictSubRect(a, b) ==
    /\ a # b
    /\ a.x >= b.x
    /\ a.y >= b.y
    /\ Right(a) <= Right(b)
    /\ Bottom(a) <= Bottom(b)

Shrunk ==
    /\ calls = 2
    /\ Rendered
    /\ LastCall.prev # None
    /\ StrictSubRect(OuterArea, Unwrap(LastCall.prev))

\* A glyph the first call wrote that is still on the surface.
StaleGlyph(p) ==
    buf[p].at = 1 /\ buf[p].by \in {"block", "content", "cursor"}

\* C6 as stated: after the second call no glyph written by the first call
\* remains in any destination cell outside the second Area.
C6_NoStaleOutside ==
    Shrunk => \A p \in BufPositions \ OnSurface(OuterArea) : ~StaleGlyph(p)

\* C6 as amended: after the second call no glyph written by the first call
\* remains in any destination cell inside the second Area; the cells outside
\* it are not touched by the second call.
C6_NoStaleInside ==
    Shrunk =>
       /\ \A p \in OnSurface(OuterArea) : buf[p].at = 2 /\ ~StaleGlyph(p)
       /\ \A p \in BufPositions \ OnSurface(OuterArea) : buf[p].at = 1

\* The first call wrote a glyph on a cell of the second Area, and the second
\* call left that cell cleared.
C6_Witness ==
    /\ Shrunk
    /\ pc = "done"
    /\ \E p \in OnSurface(OuterArea) :
          /\ ScreenCell(screen, p[2], p[1]) # None
          /\ Unwrap(ScreenCell(screen, p[2], p[1])).contents
          /\ buf[p].by = "clear"
          /\ buf[p].symbol = " "

(***************************************************************************)
(* C7. Baseline fill: with an override style set through                    *)
(* PseudoTerminal::style, every cell of the inner Area that received no     *)
(* Screen content and is not the cursor cell carries the override style.    *)
(***************************************************************************)
C7_BaselineFill ==
    (Rendered /\ LastTerm.style # None) =>
       \A p \in OnSurface(InnerOfLast) \ {CursorTarget} :
          ~HasSource(p) =>
             Vis(buf[p]) = PatchStyle(Baseline(p), Unwrap(LastTerm.style))

(***************************************************************************)
(* C8. A Screen without renderable content and with its cursor at (0,0),    *)
(* rendered with the configuration of PseudoTerminal::new, shows U+2588     *)
(* with foreground Gray at the Area's origin and leaves every other cell    *)
(* of the Area cleared.                                                     *)
(***************************************************************************)
ScreenBlank ==
    \A r \in 0 .. MaxScreen, c \in 0 .. MaxScreen :
       ScreenCell(screen, r, c) = None
          \/ ~Unwrap(ScreenCell(screen, r, c)).contents

C8_Case ==
    /\ Rendered
    /\ LastTerm = PseudoTerminalNew
    /\ ScreenBlank
    /\ ScreenCell(screen, 0, 0) # None
    /\ screen.cursor = <<0, 0>>
    /\ ~screen.hide
    /\ OnSurface(OuterArea) # {}

C8_BlankDefault ==
    C8_Case =>
       /\ Vis(buf[<<OuterArea.x, OuterArea.y>>]) =
             [symbol |-> "U+2588", fg |-> "Gray", bg |-> "Reset",
              modifier |-> {}]
       /\ \A p \in OnSurface(OuterArea) \ {<<OuterArea.x, OuterArea.y>>} :
             Vis(buf[p]) = ResetVis

\* The default widget drawn into a 2 x 2 Area at (1, 1).
C8_Witness ==
    /\ C8_Case
    /\ pc = "done"
    /\ OuterArea = Rect(1, 1, 2, 2)
    /\ buf[<<1, 1>>].symbol = "U+2588"
    /\ buf[<<2, 2>>].symbol = " "

(***************************************************************************)
(* C10. With a block that carries its own style, every cell written by      *)
(* Screen content ends with the Screen cell's glyph and style only, so no   *)
(* style attribute of the block survives on it, while the cells of the      *)
(* border and the title keep the block's style.                             *)
(***************************************************************************)
C10_NoStyleFromBlock ==
    (Rendered /\ LastTerm.block # None
       /\ Unwrap(LastTerm.block).style # StyleDefault) =>
       LET b == Unwrap(LastTerm.block)
       IN  /\ \A p \in OnSurface(InnerOfLast) \ {CursorTarget} :
                 HasSource(p) =>
                    /\ buf[p].by = "content"
                    /\ buf[p].symbol = Unwrap(SourceCell(p)).symbol
                    /\ buf[p].fg = Unwrap(SourceCell(p)).fg
                    /\ buf[p].bg = Unwrap(SourceCell(p)).bg
                    /\ buf[p].modifier = Unwrap(SourceCell(p)).modifier
                    /\ (b.style.add \cap buf[p].modifier)
                          \subseteq Unwrap(SourceCell(p)).modifier
           /\ \A p \in OnSurface(OuterArea) \ OnSurface(InnerOfLast) :
                 b.style.add \subseteq buf[p].modifier

\* A BOLD block around one content cell: the border is BOLD, the content
\* cell is not.
C10_Witness ==
    /\ pc = "done"
    /\ LastTerm.block # None
    /\ Unwrap(LastTerm.block).style = StyleBold
    /\ Unwrap(LastTerm.block).borders = AllBorders
    /\ OuterArea = Rect(0, 0, 3, 3)
    /\ buf[<<1, 1>>].by = "content"
    /\ "BOLD" \notin buf[<<1, 1>>].modifier
    /\ "BOLD" \in buf[<<0, 1>>].modifier

(***************************************************************************)
(* C11. Frame effect: a render call changes only destination cells inside   *)
(* the Area it is given, clamped to the surface; every cell outside that    *)
(* Area has the same glyph and style (and history) after the call as        *)
(* before it.                                                               *)
(***************************************************************************)
C11_OutsideUnchanged ==
    [][calls' = calls + 1 =>
          \A p \in BufPositions :
             ~Contains(Unwrap(last').area, p) => buf'[p] = buf[p]]_vars

\* A render into an Area with a non-zero origin, under a cursor that lies
\* outside it: a glyph of the earlier frame is still on a cell outside.
C11_Witness ==
    /\ pc = "done"
    /\ OuterArea = Rect(1, 1, 1, 1)
    /\ screen.cursor = <<1, 1>>
    /\ buf[<<0, 0>>].by \in {"content", "cursor"}
    /\ buf[<<0, 0>>].at = 1
    /\ buf[<<1, 1>>].at = 2

(***************************************************************************)
(* C12. Cursor position gating: a cell is written by the cursor step only   *)
(* if the cursor's (row, col) satisfies row < inner_area.height and         *)
(* col < inner_area.width and Screen.cell(row, col) exists, and then only   *)
(* the cell at that offset of the inner Area; otherwise no destination      *)
(* cell receives the cursor symbol or a cursor style.                       *)
(***************************************************************************)
C12_CursorGating ==
    Rendered =>
       \A p \in BufPositions :
          (buf[p].by = "cursor" /\ buf[p].at = calls) =>
             /\ screen.cursor[1] < InnerOfLast.height
             /\ screen.cursor[2] < InnerOfLast.width
             /\ ScreenCell(screen, screen.cursor[1], screen.cursor[2]) # None
             /\ p = CursorTarget
             /\ LastTerm.cursor.show
             /\ ~screen.hide

\* A visible cursor on a cell of the Screen that lies beyond the inner Area
\* of a bordered block: nothing of the cursor is on the surface.
C12_Witness ==
    /\ pc = "done"
    /\ LastTerm.cursor.show
    /\ ~screen.hide
    /\ LastTerm.block # None
    /\ OuterArea = Rect(0, 0, 3, 3)
    /\ InnerOfLast = Rect(1, 1, 1, 1)
    /\ screen.cursor = <<1, 1>>
    /\ ScreenCell(screen, 1, 1) # None
    /\ \A p \in BufPositions : ~(buf[p].by = "cursor" /\ buf[p].at = calls)

(***************************************************************************)
(* C13. Configuration builder: PseudoTerminal::new(screen) yields block =   *)
(* None, style = None and the default Cursor (show, U+2588, fg Gray,        *)
(* overlay REVERSED); after any sequence of setters every field of the      *)
(* widget and of the Cursor holds the value of the last setter applied to   *)
(* it, or its default; a setter changes no other field; and screen()        *)
(* returns the reference given to new.                                      *)
(***************************************************************************)
C13_BuilderFields ==
    /\ cur = given.cur
    /\ built # None =>
          /\ Unwrap(built).block = given.block
          /\ Unwrap(built).style = given.style
          /\ Unwrap(built).cursor = given.cursor
          /\ PseudoTerminalScreen(Unwrap(built)) = given.screen
          /\ given.screen \in ScreenRefs

\* Every field set at least once, the overlay style and the symbol last set
\* to values that differ from the defaults and from each other's.
C13_Witness ==
    /\ built # None
    /\ Unwrap(built).block # None
    /\ Unwrap(built).style = Some(StyleBold)
    /\ Unwrap(built).cursor.symbol = "_"
    /\ Unwrap(built).cursor.style = StyleCyanRed
    /\ Unwrap(built).cursor.overlay_style = StyleBold
    /\ ~Unwrap(built).cursor.show
    /\ cur.show
    /\ PseudoTerminalScreen(Unwrap(built)) = "parser_b.screen"

(***************************************************************************)
(* C14. In the nested_shell_async example the Screen one render observes is *)
(* a stable snapshot: the draw closure holds the read lock for the whole    *)
(* render, the reader task (process) and the resize handler (set_size)      *)
(* mutate the parser only while holding the write lock, so no step changes  *)
(* the parser between the start and the end of a render and every finished  *)
(* frame shows one state of the parser; and whenever the UI loop or the     *)
(* reader task waits for the lock, the lock is free for it or its holder    *)
(* can go on to release it.                                                 *)
(***************************************************************************)
RenderInProgress == uiPc \in {"ui", "ui_rest"}

WaitsForLock == rtPc = "lock" \/ uiPc \in {"draw", "resize"}

LockMoves ==
    \/ ENABLED RtLockWrite
    \/ ENABLED UiLockRead
    \/ ENABLED UiLockWrite
    \/ ENABLED RtProcess
    \/ ENABLED RtUnlock
    \/ ENABLED UiRenderTop
    \/ ENABLED UiRenderBottom
    \/ ENABLED UiSetSize

LockDiscipline ==
    /\ RenderInProgress =>
          parserLock.readers = 1 /\ parserLock.writer = "none"
    /\ rtPc \in {"process", "unlock"} =>
          parserLock.writer = "reader" /\ parserLock.readers = 0
    /\ uiPc = "set_size" =>
          parserLock.writer = "ui" /\ parserLock.readers = 0
    /\ uiPc = "ui_rest" => parser = frame.top
    /\ ~RenderInProgress => frame.bottom = frame.top
    /\ WaitsForLock => LockMoves

C14_StableSnapshot ==
    /\ []LockDiscipline
    /\ [][RenderInProgress => parser' = parser]_vars
    /\ [][parser' # parser => parserLock.writer # "none"]_vars

\* A render has drawn its first rows from the parser's second state while the
\* reader task, holding more output, waits for the write lock.
C14_Witness ==
    /\ uiPc = "ui_rest"
    /\ rtPc = "lock"
    /\ parser = 1
    /\ frame.top = 1

(***************************************************************************)
(* C15. In the nested_shell_async example key input is forwarded in order,  *)
(* without loss or duplication: the bytes written to the PTY, followed by   *)
(* the bytes still on their way (received by the writer task, in the        *)
(* channel, being sent), are exactly the encodings of the forwarded key     *)
(* presses in the order of the presses; 'q' and '\' end the run loop and    *)
(* are not forwarded; keys with an empty handler send nothing.              *)
(***************************************************************************)
RECURSIVE Flatten(_)
Flatten(msgs) ==
    IF msgs = <<>> THEN <<>> ELSE Head(msgs) \o Flatten(Tail(msgs))

\* The keys the claim says are not forwarded.
EmptyHandlerKeys == {"Home", "End", "Esc", "F(1)"}

RECURSIVE Encodings(_)
Encodings(keys) ==
    IF keys = <<>> THEN <<>>
    ELSE (IF Head(keys) \in QuitKeys \cup EmptyHandlerKeys
             THEN <<>> ELSE KeyArm(Head(keys)).bytes)
         \o Encodings(Tail(keys))

OnTheWay == bytes \o Flatten(chan) \o pending

C15_KeysForwardedInOrder ==
    /\ written \o OnTheWay = Encodings(pressed)
    /\ Len(chan) <= ChannelCapacity
    /\ \A i \in 1..Len(pressed) :
          pressed[i] \in QuitKeys => i = Len(pressed) /\ uiPc = "exit"
    /\ wtPc = "exit" => written = Encodings(pressed)

\* Three keys forwarded before the writer task has run: the channel is full
\* and the third send waits.
C15_Witness ==
    /\ pressed = <<"Char(a)", "Left", "Char(U+00E9)">>
    /\ chan = << <<97>>, <<27, 91, 68>> >>
    /\ Len(chan) = ChannelCapacity
    /\ uiPc = "send"
    /\ pending = <<195, 169>>
    /\ written = <<>>

\* C15 as stated, without loss: once the writer task has ended, the bytes
\* written to the PTY are the encodings of all the forwarded key presses.
C15_NothingLostAtExit ==
    wtPc \in {"exit", "dropped"} => written = Encodings(pressed)

====
